---- MODULE Spec2Model ----
(***************************************************************************)
(* Model of src/app.py, the "Document Processing Viewer": main() fetches   *)
(* a Textract result for the selected file, opens the PDF, counts blocks,  *)
(* and for every page rasterizes it, composites one tinted rectangle per   *)
(* layout block onto the page image and shows the page's LINE texts.       *)
(*                                                                         *)
(* Numbers.  A bounding-box coordinate n stands for the fraction n / Den;  *)
(* int(img_width * x) is then (img_width * n) \div Den (int() truncates,   *)
(* which is floor for the non-negative values drawn here).  Pixels are     *)
(* 8-bit channel tuples; Image.alpha_composite is Pillow's integer         *)
(* implementation (7 extra bits of precision, rounded division by 255).    *)
(* ImageDraw.rectangle fills both corner points (inclusive) and clips to   *)
(* the image.                                                              *)
(***************************************************************************)
EXTENDS Integers, Sequences, FiniteSets, TLC

VARIABLES
    world,          \* the external collaborators: fetch result, body, PDF
    pc,             \* position in main()
    exc,            \* the exception in flight (pc = "raised"), else NoExc
    raw_content,    \* main: raw_content
    content,        \* main: content
    pdf_document,   \* main: pdf_document
    all_blocks,     \* main: all_blocks
    stats,          \* main: stats (as displayed)
    page_num,       \* main: page_num
    groups,         \* main: page_*_blocks, as indices into all_blocks
    todo,           \* the regions the five overlay loops still have to draw
    img_size,       \* main: (img_width, img_height)
    img,            \* main: img
    trace,          \* calls made to Streamlit / fitz / PIL, in order
    shown,          \* images passed to st.image, in order
    text_out        \* strings passed to st.markdown in the text column

vars == <<world, pc, exc, raw_content, content, pdf_document, all_blocks,
          stats, page_num, groups, todo, img_size, img, trace, shown, text_out>>

-----------------------------------------------------------------------------
(* Bounds of the model *)

MaxBlocks == 2
MaxPages == 2
Den == 3
MaxExt == 4
MaxW == 2
MaxH == 1

-----------------------------------------------------------------------------
(* Module-level configuration of app.py *)

prefix == <<"pdpvp_textract_test_cases", "">>

BLOCK_COLORS ==
    [t \in {"LAYOUT_FIGURE", "LAYOUT_TABLE", "LAYOUT_TEXT",
            "LAYOUT_HEADER/TITLE", "LAYOUT_FOOTER"} |->
        CASE t = "LAYOUT_FIGURE" -> <<255, 0, 0, 64>>
          [] t = "LAYOUT_TABLE" -> <<0, 0, 255, 64>>
          [] t = "LAYOUT_TEXT" -> <<0, 255, 0, 64>>
          [] t = "LAYOUT_HEADER/TITLE" -> <<128, 0, 128, 64>>
          [] t = "LAYOUT_FOOTER" -> <<255, 255, 0, 64>>]

Zoom == 2

NoValue == [none |-> TRUE]
NoExc == [type |-> "none", at |-> "none"]

-----------------------------------------------------------------------------
(* Sequences *)

RECURSIVE ConcatMutReversed(_)
ConcatMutReversed(ss) ==
    IF ss = <<>> THEN <<>> ELSE ConcatMutReversed(Tail(ss)) \o Head(ss)

RECURSIVE Concat(_)
Concat(ss) == IF ss = <<>> THEN <<>> ELSE Head(ss) \o Concat(Tail(ss))

RECURSIVE Filter(_, _, _)
\* the indices i in lo..Len(s), ascending, with keep[i]
Filter(keep, lo, hi) ==
    IF lo > hi THEN <<>>
    ELSE (IF keep[lo] THEN <<lo>> ELSE <<>>) \o Filter(keep, lo + 1, hi)

Has(d, k) == k \in DOMAIN d

-----------------------------------------------------------------------------
(* Paths: a path is its sequence of segments; "a//b" has an empty segment *)

RECURSIVE NormPath(_)
NormPath(p) ==
    IF p = <<>> THEN <<>>
    ELSE IF Head(p) \in {"", "."} THEN NormPath(Tail(p))
    ELSE <<Head(p)>> \o NormPath(Tail(p))

SelectedFolder == "folder"
SelectedFile == "file"
PdfPath == <<SelectedFolder, SelectedFile \o ".pdf">>
DocumentKey == NormPath(prefix \o PdfPath)

-----------------------------------------------------------------------------
(* Images *)

Grid(size) == (0 .. size[1] - 1) \X (0 .. size[2] - 1)

\* Image.new('RGBA', size, color)
ImageNew(size, color) ==
    [mode |-> "RGBA", size |-> size, px |-> [xy \in Grid(size) |-> color]]

\* img.convert('RGBA'): an RGB pixel becomes opaque
ConvertRGBA(im) ==
    IF im.mode = "RGBA" THEN im
    ELSE [mode |-> "RGBA", size |-> im.size,
          px |-> [xy \in Grid(im.size) |->
                    <<im.px[xy][1], im.px[xy][2], im.px[xy][3], 255>>]]

\* what the rasterizer returns for 0-based page index idx of the document:
\* every page and every pixel of a page has its own colour
PagePixel(idx, xy) == <<250 - 40 * idx, 200 - 20 * xy[1], 100 + 30 * xy[2]>>

Pixmap(doc, idx) ==
    LET size == <<Zoom * doc.w, Zoom * doc.h>>
    IN [mode |-> "RGB", size |-> size,
        px |-> [xy \in Grid(size) |-> PagePixel(idx, xy)]]

\* ImageDraw.rectangle([(x0, y0), (x1, y1)], fill=fill) on an RGBA image:
\* both corners are filled, the part outside the image is dropped
DrawRectangleMutUnclipped(im, x0, y0, x1, y1, fill) ==
    IF x1 >= im.size[1] \/ y1 >= im.size[2]
    THEN [ok |-> FALSE, im |-> im]
    ELSE [ok |-> TRUE,
          im |-> [im EXCEPT !.px =
                    [xy \in Grid(im.size) |->
                        IF /\ x0 <= xy[1] /\ xy[1] <= x1
                           /\ y0 <= xy[2] /\ xy[2] <= y1
                        THEN fill ELSE im.px[xy]]]]

DrawRectangle(im, x0, y0, x1, y1, fill) ==
    [ok |-> TRUE,
     im |-> [im EXCEPT !.px =
                [xy \in Grid(im.size) |->
                    IF /\ x0 <= xy[1] /\ xy[1] <= x1
                       /\ y0 <= xy[2] /\ xy[2] <= y1
                    THEN fill ELSE im.px[xy]]]]

ShiftForDiv255(a) == ((a \div 256) + a) \div 256

\* one pixel of Image.alpha_composite(dst, src)
OverPixel(d, s) ==
    IF s[4] = 0 THEN d
    ELSE LET blend == d[4] * (255 - s[4])
             outa255 == s[4] * 255 + blend
             coef1 == (s[4] * 255 * 255 * 128) \div outa255
             coef2 == 255 * 128 - coef1
             ch(i) == ShiftForDiv255(s[i] * coef1 + d[i] * coef2 + 128 * 128)
                        \div 128
         IN <<ch(1), ch(2), ch(3), ShiftForDiv255(outa255 + 128)>>

\* Image.alpha_composite(im1, im2): both RGBA and of the same size
AlphaComposite(im1, im2) ==
    IF im1.mode # "RGBA" \/ im2.mode # "RGBA" \/ im1.size # im2.size
    THEN [ok |-> FALSE, im |-> im1]
    ELSE [ok |-> TRUE,
          im |-> [im1 EXCEPT !.px =
                    [xy \in Grid(im1.size) |-> OverPixel(im1.px[xy], im2.px[xy])]]]

-----------------------------------------------------------------------------
(* Textract blocks and the inputs of a run *)

\* the types drawn in the runs of several blocks; LAYOUT_LIST stands for every
\* tag app.py never mentions
FlowTypes == {"LINE", "WORD", "LAYOUT_LIST", "LAYOUT_FIGURE", "LAYOUT_TABLE",
              "LAYOUT_TEXT", "LAYOUT_SECTION_HEADER", "LAYOUT_FOOTER"}
\* the types drawn in the runs of one region of any geometry
GeomTypes == {"LAYOUT_TABLE", "LAYOUT_HEADER", "LAYOUT_TITLE"}

Box(l, t, w, h) ==
    [BoundingBox |-> [Left |-> l, Top |-> t, Width |-> w, Height |-> h]]

LineText(i) == "line " \o ToString(i)

\* the i-th block of a result: every LINE has its own text, odd and even
\* blocks have boxes that overlap in part
MkBlock(ty, pg, i) ==
    LET geo == IF i % 2 = 1 THEN Box(0, 0, 1, Den) ELSE Box(1, 0, 1, Den)
    IN IF ty = "LINE"
       THEN [BlockType |-> ty, Page |-> pg, Text |-> LineText(i), Geometry |-> geo]
       ELSE [BlockType |-> ty, Page |-> pg, Geometry |-> geo]

Content(parts) == [type |-> "dict", items |-> [k \in {DocumentKey} |-> parts]]

World(parts, n, w, h) ==
    [fetch |-> "ok",
     body |-> [kind |-> "json", value |-> Content(parts)],
     pdf |-> [exists |-> TRUE, pages |-> n, w |-> w, h |-> h, bad |-> 0]]

\* one region of any geometry on a one-page document of any size
GeomInput ==
    \E ty \in GeomTypes, l \in 0 .. Den, t \in 0 .. Den,
       w \in 0 .. MaxExt, h \in 0 .. MaxExt, pw \in 1 .. MaxW, ph \in 1 .. MaxH :
        world = World(<<[Blocks |-> <<[BlockType |-> ty, Page |-> 1,
                                       Geometry |-> Box(l, t, w, h)]>>]>>, 1, pw, ph)

\* up to MaxBlocks blocks, each of any type and on any of the pages 1..MaxPages,
\* for a document of one page and for one of MaxPages pages
FlowInput ==
    \E k \in 0 .. MaxBlocks, n \in {1, MaxPages} :
        \E tp \in [1 .. k -> FlowTypes \X (1 .. MaxPages)] :
            world = World(<<[Blocks |-> [i \in 1 .. k |-> MkBlock(tp[i][1], tp[i][2], i)]]>>,
                          n, 2, 1)

\* the same blocks spread over two response fragments
SplitInput ==
    \E ty \in [1 .. 2 -> {"LINE", "LAYOUT_FIGURE", "LAYOUT_FOOTER"}], k \in 0 .. 2 :
        LET bs == [i \in 1 .. 2 |-> MkBlock(ty[i], 1, i)]
        IN world = World(<<[Blocks |-> SubSeq(bs, 1, k)],
                           [Blocks |-> SubSeq(bs, k + 1, 2)]>>, 1, 2, 1)

\* blocks that lack a field
Malformed ==
    {[Page |-> 1, Geometry |-> Box(0, 0, 1, 1)],
     [BlockType |-> "LINE", Text |-> "no page", Geometry |-> Box(0, 0, 1, 1)],
     [BlockType |-> "LAYOUT_TABLE", Geometry |-> Box(0, 0, 1, 1)],
     [BlockType |-> "LAYOUT_FIGURE", Page |-> 1],
     [BlockType |-> "LAYOUT_TEXT", Page |-> 2],
     [BlockType |-> "LAYOUT_FOOTER", Page |-> 1, Geometry |-> [Polygon |-> 0]],
     [BlockType |-> "LAYOUT_TITLE", Page |-> 1,
      Geometry |-> [BoundingBox |-> [Left |-> 0, Top |-> 0, Height |-> 1]]],
     [BlockType |-> "LINE", Page |-> 1, Geometry |-> Box(0, 0, 1, 1)],
     [BlockType |-> "LINE", Page |-> 2, Geometry |-> Box(0, 0, 1, 1)],
     [BlockType |-> "WORD", Page |-> 1]}

MalformedInput ==
    world \in
    LET good == {MkBlock(ty, pg, 1) :
                    ty \in {"LINE", "LAYOUT_FIGURE", "LAYOUT_FOOTER"}, pg \in 1 .. 2}
        seqs == {<<m>> : m \in Malformed}
                \cup {<<g, m>> : g \in good, m \in Malformed}
                \cup {<<m, g>> : g \in good, m \in Malformed}
    IN {World(<<[Blocks |-> bs]>>, n, 1, 1) : bs \in seqs, n \in 1 .. 2}

\* failures of the collaborators
ErrorInput ==
    world \in
    LET ok == World(<<[Blocks |-> <<MkBlock("LAYOUT_FIGURE", 1, 1)>>]>>, 1, 1, 1)
        part == [Blocks |-> <<MkBlock("LINE", 1, 1)>>]
    IN {[ok EXCEPT !.fetch = "error"],
        [ok EXCEPT !.body = [kind |-> "empty"]],
        [ok EXCEPT !.body = [kind |-> "garbage"]],
        [ok EXCEPT !.body = [kind |-> "bad utf-8"]],
        [ok EXCEPT !.body.value = [type |-> "list", items |-> <<part>>]],
        [ok EXCEPT !.body.value =
            [type |-> "dict", items |-> [k \in {prefix \o PdfPath} |-> <<part>>]]],
        [ok EXCEPT !.body.value = [type |-> "dict", items |-> <<>>]],
        [ok EXCEPT !.body.value = Content(<<part, [ResponseMetadata |-> 0]>>)],
        [ok EXCEPT !.body.value = Content(<<>>)],
        [ok EXCEPT !.pdf.exists = FALSE],
        [ok EXCEPT !.pdf.bad = 1]}


-----------------------------------------------------------------------------
(* Steps of main() *)

Call(ev, page, arg) == [ev |-> ev, page |-> page, arg |-> arg]

Init ==
    /\ \/ GeomInput
       \/ FlowInput
       \/ SplitInput
       \/ MalformedInput
       \/ ErrorInput
    /\ pc = "fetch"
    /\ exc = NoExc
    /\ raw_content = NoValue
    /\ content = NoValue
    /\ pdf_document = NoValue
    /\ all_blocks = <<>>
    /\ stats = NoValue
    /\ page_num = 0
    /\ groups = NoValue
    /\ todo = <<>>
    /\ img_size = NoValue
    /\ img = NoValue
    /\ trace = <<>>
    /\ shown = <<>>
    /\ text_out = <<>>

\* raise e inside main's try block
Raise(e, where) ==
    /\ pc' = "raised"
    /\ exc' = [type |-> e, at |-> where]

\* get_github_file_content: the bytes, or None after st.error on any
\* requests.RequestException (connection error, non-2xx status)
get_github_file_content(w) ==
    IF w.fetch = "ok"
    THEN [value |-> w.body, calls |-> <<>>]
    ELSE [value |-> NoValue, calls |-> <<Call("st.error: fetch", 0, 0)>>]

\* `not raw_content`: None or b""
IsFalsy(raw) == raw = NoValue \/ raw.kind = "empty"

\* lines 95-106
FetchContent ==
    /\ pc = "fetch"
    /\ LET got == get_github_file_content(world)
       IN /\ raw_content' = got.value
          /\ IF IsFalsy(got.value)
             THEN /\ trace' = trace \o got.calls \o <<Call("st.error: empty", 0, 0)>>
                  /\ pc' = "returned"
             ELSE /\ trace' = trace \o got.calls
                  /\ pc' = "parse"
    /\ UNCHANGED <<world, exc, content, pdf_document, all_blocks, stats,
                   page_num, groups, todo, img_size, img, shown, text_out>>

JsonLoadsMutLenient(raw) ==
    CASE raw = NoValue -> [exc |-> "TypeError"]
      [] raw # NoValue /\ raw.kind = "json" -> [exc |-> "none", value |-> raw.value]
      [] OTHER -> [exc |-> "none", value |-> [type |-> "dict", items |-> <<>>]]

\* json.loads(raw_content)
JsonLoads(raw) ==
    CASE raw = NoValue -> [exc |-> "TypeError"]
      [] raw # NoValue /\ raw.kind = "json" -> [exc |-> "none", value |-> raw.value]
      [] raw # NoValue /\ raw.kind = "bad utf-8" -> [exc |-> "UnicodeDecodeError"]
      [] OTHER -> [exc |-> "JSONDecodeError"]

\* lines 108-115
ParseJson ==
    /\ pc = "parse"
    /\ LET r == JsonLoads(raw_content)
       IN CASE r.exc = "none" ->
                 /\ content' = r.value
                 /\ pc' = "open"
                 /\ UNCHANGED <<exc, trace>>
            [] r.exc = "JSONDecodeError" ->
                 /\ trace' = trace \o <<Call("st.error: invalid json", 0, 0),
                                        Call("st.write: raw content", 0, 0),
                                        Call("st.code: traceback", 0, 0)>>
                 /\ pc' = "returned"
                 /\ UNCHANGED <<exc, content>>
            [] OTHER ->
                 /\ Raise(r.exc, "ParseJson")
                 /\ UNCHANGED <<content, trace>>
    /\ UNCHANGED <<world, raw_content, pdf_document, all_blocks, stats,
                   page_num, groups, todo, img_size, img, shown, text_out>>

\* line 117
OpenPdf ==
    /\ pc = "open"
    /\ trace' = Append(trace, Call("fitz.open", 0, 0))
    /\ IF ~world.pdf.exists
       THEN /\ Raise("FileNotFoundError", "OpenPdf")
            /\ UNCHANGED pdf_document
       ELSE /\ pdf_document' = world.pdf
            /\ pc' = "extract"
            /\ UNCHANGED exc
    /\ UNCHANGED <<world, raw_content, content, all_blocks, stats,
                   page_num, groups, todo, img_size, img, shown, text_out>>

\* lines 119-125
ExtractBlocks ==
    /\ pc = "extract"
    /\ CASE content.type # "dict" ->
              /\ Raise("TypeError", "ExtractBlocks")
              /\ UNCHANGED all_blocks
         [] content.type = "dict" /\ ~Has(content.items, DocumentKey) ->
              /\ Raise("KeyError", "ExtractBlocks")
              /\ UNCHANGED all_blocks
         [] OTHER ->
              LET textract_parts == content.items[DocumentKey]
              IN IF \E i \in DOMAIN textract_parts : ~Has(textract_parts[i], "Blocks")
                 THEN /\ Raise("KeyError", "ExtractBlocks")
                      /\ UNCHANGED all_blocks
                 ELSE /\ all_blocks' =
                            Concat([i \in DOMAIN textract_parts |-> textract_parts[i].Blocks])
                      /\ pc' = "stats"
                      /\ UNCHANGED exc
    /\ UNCHANGED <<world, raw_content, content, pdf_document, stats,
                   page_num, groups, todo, img_size, img, trace, shown, text_out>>

Count(blocks, ty) == Cardinality({i \in DOMAIN blocks : blocks[i].BlockType = ty})

\* lines 128-147: the if/elif chain puts a block in at most one list
StatsOf(blocks, doc) ==
    [PageCount |-> doc.pages,
     LineCount |-> Count(blocks, "LINE"),
     WordCount |-> Count(blocks, "WORD"),
     FigureCount |-> Count(blocks, "LAYOUT_FIGURE"),
     TableCount |-> Count(blocks, "LAYOUT_TABLE")]

\* lines 127-151
ComputeStats ==
    /\ pc = "stats"
    /\ IF \E i \in DOMAIN all_blocks : ~Has(all_blocks[i], "BlockType")
       THEN /\ Raise("KeyError", "ComputeStats")
            /\ UNCHANGED <<stats, trace, page_num>>
       ELSE /\ stats' = StatsOf(all_blocks, pdf_document)
            /\ trace' = trace \o <<Call("st.write: stats", 0, 0),
                                   Call("legend", 0, 0)>>
            /\ page_num' = 1
            /\ pc' = "page"
            /\ UNCHANGED exc
    /\ UNCHANGED <<world, raw_content, content, pdf_document, all_blocks,
                   groups, todo, img_size, img, shown, text_out>>

GroupNames == {"line", "word", "figure", "table", "text", "header", "footer"}

InGroupMutUnified(g, ty) ==
    CASE g = "line" -> ty = "LINE"
      [] g = "word" -> ty = "WORD"
      [] g = "figure" -> ty = "LAYOUT_FIGURE"
      [] g = "table" -> ty = "LAYOUT_TABLE"
      [] g = "text" -> ty = "LAYOUT_TEXT"
      [] g = "header" -> ty \in {"LAYOUT_HEADER", "LAYOUT_TITLE"}
      [] g = "footer" -> ty = "LAYOUT_FOOTER"

InGroupMutCatchAll(g, ty) ==
    CASE g = "line" -> ty = "LINE"
      [] g = "word" -> ty = "WORD"
      [] g = "figure" -> ty = "LAYOUT_FIGURE"
      [] g = "table" -> ty = "LAYOUT_TABLE"
      [] g = "text" -> ty \notin {"LINE", "WORD", "LAYOUT_FIGURE", "LAYOUT_TABLE",
                                  "LAYOUT_SECTION_HEADER", "LAYOUT_HEADER",
                                  "LAYOUT_TITLE", "LAYOUT_FOOTER"}
      [] g = "header" -> ty \in {"LAYOUT_SECTION_HEADER", "LAYOUT_HEADER", "LAYOUT_TITLE"}
      [] g = "footer" -> ty = "LAYOUT_FOOTER"

\* the tests of lines 166-179
InGroup(g, ty) ==
    CASE g = "line" -> ty = "LINE"
      [] g = "word" -> ty = "WORD"
      [] g = "figure" -> ty = "LAYOUT_FIGURE"
      [] g = "table" -> ty = "LAYOUT_TABLE"
      [] g = "text" -> ty = "LAYOUT_TEXT"
      [] g = "header" -> ty \in {"LAYOUT_SECTION_HEADER", "LAYOUT_HEADER", "LAYOUT_TITLE"}
      [] g = "footer" -> ty = "LAYOUT_FOOTER"

OnPageMutFrom(b, p) == b.Page >= p

\* does block b belong to page p (line 163)
OnPage(b, p) == b.Page = p

\* page_*_blocks of page p: for every group the blocks of the page that pass
\* the group's test, in all_blocks order
PageGroups(blocks, p) ==
    [g \in GroupNames |->
        Filter([i \in DOMAIN blocks |->
                    OnPage(blocks[i], p) /\ InGroup(g, blocks[i].BlockType)],
               1, Len(blocks))]

OverlayLoopsMutFooterFirst == <<"footer", "figure", "table", "text", "header">>

\* the five overlay loops in program order and the fill each one hard-codes
OverlayLoops == <<"figure", "table", "text", "header", "footer">>

LoopFill(g) ==
    CASE g = "figure" -> <<255, 0, 0, 64>>
      [] g = "table" -> <<0, 0, 255, 64>>
      [] g = "text" -> <<0, 255, 0, 64>>
      [] g = "header" -> <<128, 0, 128, 64>>
      [] g = "footer" -> <<255, 255, 0, 64>>

\* the regions lines 190-293 draw, in the order they draw them
DrawQueue(grps) ==
    Concat([k \in DOMAIN OverlayLoops |->
              [j \in DOMAIN grps[OverlayLoops[k]] |->
                  [block |-> grps[OverlayLoops[k]][j], fill |-> LoopFill(OverlayLoops[k])]]])

\* lines 153-188: the page's groups, then the page image
StartPage ==
    /\ pc = "page"
    /\ page_num <= pdf_document.pages
    /\ IF \E i \in DOMAIN all_blocks : ~Has(all_blocks[i], "Page")
       THEN /\ Raise("KeyError", "StartPage")
            /\ UNCHANGED <<groups, todo, img_size, img, trace>>
       ELSE IF pdf_document.bad = page_num
       THEN /\ groups' = PageGroups(all_blocks, page_num)
            /\ trace' = Append(trace, Call("load_page", page_num, page_num - 1))
            /\ Raise("RuntimeError", "StartPage")
            /\ UNCHANGED <<todo, img_size, img>>
       ELSE /\ groups' = PageGroups(all_blocks, page_num)
            /\ todo' = DrawQueue(groups')
            /\ img' = Pixmap(pdf_document, page_num - 1)
            /\ img_size' = img'.size
            /\ trace' = Append(trace, Call("load_page", page_num, page_num - 1))
            /\ pc' = "overlay"
            /\ UNCHANGED exc
    /\ UNCHANGED <<world, raw_content, content, pdf_document, all_blocks, stats,
                   page_num, shown, text_out>>

\* range(1, len(pdf_document) + 1) is exhausted: main returns
EndPages ==
    /\ pc = "page"
    /\ page_num > pdf_document.pages
    /\ pc' = "returned"
    /\ UNCHANGED <<world, exc, raw_content, content, pdf_document, all_blocks, stats,
                   page_num, groups, todo, img_size, img, trace, shown, text_out>>

ToPixelsMutRound(dim, n) == (2 * dim * n + Den) \div (2 * Den)

\* int(img_width * bounding_box[...]) for the fraction n / Den
ToPixels(dim, n) == (dim * n) \div Den

BoxFields == {"Left", "Top", "Width", "Height"}

HasBox(b) ==
    /\ Has(b, "Geometry")
    /\ Has(b.Geometry, "BoundingBox")
    /\ BoxFields \subseteq DOMAIN b.Geometry.BoundingBox

\* Image.new('RGBA', img.size, (0, 0, 0, 0))
Overlay(im) == ImageNew(im.size, <<0, 0, 0, 0>>)

\* the body of each overlay loop, for one block (lines 191-209 and its copies)
CompositeBlock ==
    /\ pc = "overlay"
    /\ todo # <<>>
    /\ LET block == all_blocks[Head(todo).block]
       IN IF ~HasBox(block)
          THEN /\ Raise("KeyError", "CompositeBlock")
               /\ UNCHANGED <<todo, img, trace>>
          ELSE LET bounding_box == block.Geometry.BoundingBox
                   left == ToPixels(img_size[1], bounding_box.Left)
                   top == ToPixels(img_size[2], bounding_box.Top)
                   width == ToPixels(img_size[1], bounding_box.Width)
                   height == ToPixels(img_size[2], bounding_box.Height)
                   draw == DrawRectangle(Overlay(img), left, top, left + width,
                                         top + height, Head(todo).fill)
                   out == AlphaComposite(ConvertRGBA(img), draw.im)
               IN IF draw.ok /\ out.ok
                  THEN /\ img' = out.im
                       /\ todo' = Tail(todo)
                       /\ trace' = Append(trace, Call("alpha_composite", page_num,
                                                      Head(todo).block))
                       /\ UNCHANGED <<pc, exc>>
                  ELSE /\ Raise("ValueError", "CompositeBlock")
                       /\ UNCHANGED <<todo, img, trace>>
    /\ UNCHANGED <<world, raw_content, content, pdf_document, all_blocks, stats,
                   page_num, groups, img_size, shown, text_out>>

\* the lines shown before the first LINE block without a Text
RECURSIVE LinesUntilError(_, _)
LinesUntilError(blocks, idxs) ==
    IF idxs = <<>> \/ ~Has(blocks[Head(idxs)], "Text") THEN <<>>
    ELSE <<Head(idxs)>> \o LinesUntilError(blocks, Tail(idxs))

\* lines 295-301: the image, then the page's lines; then the next page
DisplayPage ==
    /\ pc = "overlay"
    /\ todo = <<>>
    /\ shown' = Append(shown, [page |-> page_num, image |-> img])
    /\ LET ok == LinesUntilError(all_blocks, groups.line)
       IN /\ text_out' = text_out \o
                [j \in DOMAIN ok |-> [page |-> page_num, text |-> all_blocks[ok[j]].Text]]
          /\ trace' = trace \o <<Call("st.image", page_num, 0)>> \o
                [j \in DOMAIN ok |-> Call("st.markdown", page_num, ok[j])]
          /\ IF Len(ok) < Len(groups.line)
             THEN /\ Raise("KeyError", "DisplayPage")
                  /\ UNCHANGED page_num
             ELSE /\ page_num' = page_num + 1
                  /\ pc' = "page"
                  /\ UNCHANGED exc
    /\ UNCHANGED <<world, raw_content, content, pdf_document, all_blocks, stats,
                   groups, todo, img_size, img>>

\* `except Exception`: every exception class main's body can raise derives from it
CatchesMutKeyErrorOnly(e) == e = "KeyError"

Catches(e) ==
    e \in {"KeyError", "TypeError", "ValueError", "UnicodeDecodeError",
           "FileNotFoundError", "RuntimeError"}

\* lines 303-306
HandleError ==
    /\ pc = "raised"
    /\ IF Catches(exc.type)
       THEN /\ trace' = trace \o <<Call("st.error: loading", 0, 0),
                                   Call("st.code: traceback", 0, 0)>>
            /\ pc' = "returned"
       ELSE /\ pc' = "crashed"
            /\ UNCHANGED trace
    /\ UNCHANGED <<world, exc, raw_content, content, pdf_document, all_blocks, stats,
                   page_num, groups, todo, img_size, img, shown, text_out>>

Next ==
    \/ FetchContent
    \/ ParseJson
    \/ OpenPdf
    \/ ExtractBlocks
    \/ ComputeStats
    \/ StartPage
    \/ EndPages
    \/ CompositeBlock
    \/ DisplayPage
    \/ HandleError

Spec == Init /\ [][Next]_vars

-----------------------------------------------------------------------------
(* Reference definitions for the properties: what the specification says   *)
(* of a result, stated from the fetched document alone.                    *)

\* the fetched result is a document with Blocks in every fragment
ResultOk ==
    /\ world.fetch = "ok"
    /\ world.body.kind = "json"
    /\ world.body.value.type = "dict"
    /\ DocumentKey \in DOMAIN world.body.value.items
    /\ \A i \in DOMAIN world.body.value.items[DocumentKey] :
            "Blocks" \in DOMAIN world.body.value.items[DocumentKey][i]

RECURSIVE Flatten(_, _)
Flatten(parts, i) ==
    IF i > Len(parts) THEN <<>> ELSE parts[i].Blocks \o Flatten(parts, i + 1)

\* the blocks in fragment order, then in the order within a fragment
FragBlocks == Flatten(world.body.value.items[DocumentKey], 1)

PageCount == world.pdf.pages
PageSize == <<2 * world.pdf.w, 2 * world.pdf.h>>

\* the category of a block type, "none" for a type that is not drawn
CategoryOf(ty) ==
    CASE ty = "LAYOUT_FIGURE" -> "LAYOUT_FIGURE"
      [] ty = "LAYOUT_TABLE" -> "LAYOUT_TABLE"
      [] ty = "LAYOUT_TEXT" -> "LAYOUT_TEXT"
      [] ty \in {"LAYOUT_SECTION_HEADER", "LAYOUT_HEADER", "LAYOUT_TITLE"} ->
            "LAYOUT_HEADER/TITLE"
      [] ty = "LAYOUT_FOOTER" -> "LAYOUT_FOOTER"
      [] OTHER -> "none"

CategoryOrder == <<"LAYOUT_FIGURE", "LAYOUT_TABLE", "LAYOUT_TEXT",
                   "LAYOUT_HEADER/TITLE", "LAYOUT_FOOTER">>

Rank(ty) == CHOOSE r \in 1 .. 5 : CategoryOrder[r] = CategoryOf(ty)

\* floor(dim * n / Den), by the property that defines it, for every image
\* dimension and every coordinate of the inputs
FloorTable ==
    [dim \in 1 .. 2 * (MaxW + MaxH + 2), n \in 0 .. Den + MaxExt |->
        CHOOSE k \in 0 .. dim * n : k * Den <= dim * n /\ dim * n < (k + 1) * Den]

PxFloor(dim, n) == FloorTable[dim, n]

\* is pixel xy inside the rectangle of block b on an image of the given size
Covers(b, size, xy) ==
    LET bb == b.Geometry.BoundingBox
        x0 == PxFloor(size[1], bb.Left)
        y0 == PxFloor(size[2], bb.Top)
    IN /\ x0 <= xy[1] /\ xy[1] <= x0 + PxFloor(size[1], bb.Width)
       /\ y0 <= xy[2] /\ xy[2] <= y0 + PxFloor(size[2], bb.Height)

\* "over" with 8-bit channels, rounded to nearest: source s over destination d
StdOver(d, s) ==
    LET outa == s[4] * 255 + d[4] * (255 - s[4])
        ch(i) == (2 * (s[i] * s[4] * 255 + d[i] * d[4] * (255 - s[4])) + outa)
                    \div (2 * outa)
    IN <<ch(1), ch(2), ch(3), (2 * outa + 255) \div 510>>

Opaque(px) == IF Len(px) = 4 THEN px ELSE <<px[1], px[2], px[3], 255>>

BasePixel(p, xy) == Opaque(PagePixel(p - 1, xy))

\* the drawn blocks of page p among blocks[i], keep[i]: by category, then by index
RECURSIVE RegionsFrom(_, _, _, _, _)
RegionsFrom(blocks, keep, p, r, i) ==
    IF r > 5 THEN <<>>
    ELSE IF i > Len(blocks) THEN RegionsFrom(blocks, keep, p, r + 1, 1)
    ELSE (IF /\ keep[i]
             /\ blocks[i].Page = p
             /\ CategoryOf(blocks[i].BlockType) = CategoryOrder[r]
          THEN <<i>> ELSE <<>>) \o RegionsFrom(blocks, keep, p, r, i + 1)

RECURSIVE PaintAll(_, _, _, _)
PaintAll(px, blocks, regs, xy) ==
    IF regs = <<>> THEN px
    ELSE LET b == blocks[Head(regs)]
         IN PaintAll(IF Covers(b, PageSize, xy)
                     THEN StdOver(px, BLOCK_COLORS[CategoryOf(b.BlockType)])
                     ELSE px,
                     blocks, Tail(regs), xy)

\* the pixels of page p with the kept blocks drawn on it
RefPixels(blocks, keep, p) ==
    LET regs == RegionsFrom(blocks, keep, p, 1, 1)
    IN [xy \in Grid(PageSize) |-> PaintAll(BasePixel(p, xy), blocks, regs, xy)]

ShownPixels(k) ==
    [xy \in DOMAIN shown[k].image.px |-> Opaque(shown[k].image.px[xy])]

All(blocks) == [i \in DOMAIN blocks |-> TRUE]

FullBox(b) ==
    /\ "Geometry" \in DOMAIN b
    /\ "BoundingBox" \in DOMAIN b.Geometry
    /\ {"Left", "Top", "Width", "Height"} \subseteq DOMAIN b.Geometry.BoundingBox

Composites == SelectSeq(trace, LAMBDA e : e.ev = "alpha_composite")

Happened(ev) == \E j \in DOMAIN trace : trace[j].ev = ev

-----------------------------------------------------------------------------
(* C1 *)

\* C1: every displayed page image is the page with its regions composited one
\* at a time in the order Figure, Table, Text, Header/Title, Footer (input
\* order inside a category), whatever their order in the input: each pixel is
\* the successive "over" of the tints of the regions covering it, in that
\* order, and the compositing steps of a page happen in that order.
C1_GroupOrderCompositing ==
    LET fb == FragBlocks
        cs == Composites
    IN
        ResultOk =>
            /\ \A k \in DOMAIN shown :
                    ShownPixels(k) = RefPixels(fb, All(fb), shown[k].page)
            /\ \A j, k \in DOMAIN cs :
                    (j < k /\ cs[j].page = cs[k].page) =>
                        LET tj == fb[cs[j].arg].BlockType
                            tk == fb[cs[k].arg].BlockType
                        IN \/ Rank(tj) < Rank(tk)
                           \/ Rank(tj) = Rank(tk) /\ cs[j].arg < cs[k].arg

\* a footer given before a text region, overlapping it: the overlap shows
\* green under yellow, which differs from yellow under green
C1_Witness ==
    LET fb == FragBlocks
        cs == Composites
    IN
        /\ pc = "returned" /\ exc = NoExc /\ ResultOk
        /\ Len(fb) = 2 /\ Len(shown) = 1
        /\ fb[1].BlockType = "LAYOUT_FOOTER" /\ fb[1].Page = 1
        /\ fb[2].BlockType = "LAYOUT_TEXT" /\ fb[2].Page = 1
        /\ FullBox(fb[1]) /\ FullBox(fb[2])
        /\ \E xy \in Grid(PageSize) :
            /\ Covers(fb[1], PageSize, xy) /\ Covers(fb[2], PageSize, xy)
            /\ ShownPixels(1)[xy] =
                 StdOver(StdOver(BasePixel(1, xy), <<0, 255, 0, 64>>), <<255, 255, 0, 64>>)
            /\ ShownPixels(1)[xy] #
                 StdOver(StdOver(BasePixel(1, xy), <<255, 255, 0, 64>>), <<0, 255, 0, 64>>)

-----------------------------------------------------------------------------
(* C2 *)

ZeroArea(b) ==
    \/ PxFloor(PageSize[1], b.Geometry.BoundingBox.Width) = 0
    \/ PxFloor(PageSize[2], b.Geometry.BoundingBox.Height) = 0

\* C2: a region whose box has width 0 or height 0 (a pixel rectangle of zero
\* area) is skipped: every displayed page image is the one drawn without the
\* zero-area regions.
C2_ZeroAreaSkipped ==
    LET fb == FragBlocks
        cs == Composites
    IN
        ResultOk =>
            \A k \in DOMAIN shown :
                ShownPixels(k) =
                    RefPixels(fb,
                              [i \in DOMAIN fb |->
                                  ~(/\ fb[i].Page = shown[k].page
                                    /\ CategoryOf(fb[i].BlockType) # "none"
                                    /\ ZeroArea(fb[i]))],
                              shown[k].page)

-----------------------------------------------------------------------------
(* C3 *)

\* C3: a box with left, top in [0,1] and any width, height >= 0, also one that
\* extends past the right or bottom edge, never makes compositing raise; the
\* image keeps the size of the rasterized page and has no pixel outside it.
C3_ClippedNoRaise ==
    /\ (pc = "raised" /\ exc.at = "CompositeBlock") =>
            ~FullBox(all_blocks[Head(todo).block])
    /\ img # NoValue => (img.size = PageSize /\ DOMAIN img.px = Grid(PageSize))
    /\ \A k \in DOMAIN shown :
            /\ shown[k].image.size = PageSize
            /\ DOMAIN shown[k].image.px = Grid(PageSize)

\* a box that starts inside the image and ends past its right and bottom
\* edges has been drawn, up to the last pixel of the image
C3_Witness ==
    LET fb == FragBlocks
        cs == Composites
    IN
        /\ pc = "returned" /\ exc = NoExc /\ ResultOk
        /\ Len(fb) = 1 /\ Len(shown) = 1 /\ Len(cs) = 1
        /\ LET bb == fb[1].Geometry.BoundingBox
               last == <<PageSize[1] - 1, PageSize[2] - 1>>
           IN /\ bb.Left < Den /\ bb.Left + bb.Width > Den
              /\ bb.Top < Den /\ bb.Top + bb.Height > Den
              /\ ShownPixels(1)[last] # BasePixel(1, last)

-----------------------------------------------------------------------------
(* C4 *)

\* C4: one compositing step paints the rectangle with corners
\* (floor(W*left), floor(H*top)) and (floor(W*left) + floor(W*width),
\* floor(H*top) + floor(H*height)): every pixel of it (inside the image)
\* becomes the "over" blend of the category's BLOCK_COLORS tint, alpha 64,
\* on the previous pixel, and every other pixel keeps its value.
C4_RectangleAndBlend ==
    [][(pc = "overlay" /\ todo # <<>> /\ pc' = "overlay") =>
        LET b == all_blocks[Head(todo).block]
            tint == BLOCK_COLORS[CategoryOf(b.BlockType)]
        IN /\ tint[4] = 64
           /\ DOMAIN img'.px = Grid(PageSize)
           /\ \A xy \in Grid(PageSize) :
                img'.px[xy] = IF Covers(b, PageSize, xy)
                              THEN StdOver(Opaque(img.px[xy]), tint)
                              ELSE Opaque(img.px[xy])]_vars

\* on a 2-pixel-wide image a box with left 1/3 and width 1/3 covers column 0
\* only (floor(2/3) + floor(2/3) = 0), not column 1 (floor(4/3) = 1)
C4_Witness ==
    LET fb == FragBlocks
        cs == Composites
    IN
        /\ pc = "overlay" /\ todo = <<>> /\ Len(all_blocks) = 1 /\ Len(cs) = 1
        /\ Den = 3 /\ img.size[1] = 2
        /\ all_blocks[1].Geometry.BoundingBox.Left = 1
        /\ all_blocks[1].Geometry.BoundingBox.Width = 1
        /\ all_blocks[1].Geometry.BoundingBox.Top = 0
        /\ all_blocks[1].BlockType = "LAYOUT_TABLE"
        /\ img.px[<<0, 0>>] = StdOver(BasePixel(1, <<0, 0>>), <<0, 0, 255, 64>>)
        /\ img.px[<<1, 0>>] = BasePixel(1, <<1, 0>>)

-----------------------------------------------------------------------------
(* C5 *)

\* every block has the fields main() reads of a block of its type
WellFormed(b) ==
    /\ {"BlockType", "Page"} \subseteq DOMAIN b
    /\ b.BlockType = "LINE" => "Text" \in DOMAIN b
    /\ CategoryOf(b.BlockType) # "none" => FullBox(b)

PdfOk == world.pdf.exists /\ world.pdf.bad = 0

\* C5: a block whose type is not an overlay category (LINE, WORD, any other
\* tag) causes no compositing step and no error, and every displayed page
\* image is the one drawn from the input without that block.
C5_NonOverlayIgnored ==
    LET fb == FragBlocks
        cs == Composites
    IN
        ResultOk =>
            /\ \A j \in DOMAIN cs :
                    CategoryOf(fb[cs[j].arg].BlockType) # "none"
            /\ (PdfOk /\ \A i \in DOMAIN fb : WellFormed(fb[i])) =>
                    pc \notin {"raised", "crashed"}
            /\ \A k \in DOMAIN shown : \A i \in DOMAIN fb :
                    CategoryOf(fb[i].BlockType) = "none" =>
                        ShownPixels(k) =
                            RefPixels(fb, [j \in DOMAIN fb |-> j # i],
                                      shown[k].page)

\* a LAYOUT_LIST block and a figure on the same page: one compositing step
C5_Witness ==
    LET fb == FragBlocks
        cs == Composites
    IN
        /\ pc = "returned" /\ exc = NoExc /\ ResultOk
        /\ Len(fb) = 2 /\ Len(shown) = 1 /\ Len(cs) = 1
        /\ fb[1].BlockType = "LAYOUT_LIST" /\ fb[1].Page = 1
        /\ fb[2].BlockType = "LAYOUT_FIGURE" /\ fb[2].Page = 1
        /\ cs[1].arg = 2

-----------------------------------------------------------------------------
(* C6 *)

\* C6: no run of the per-file flow ends with an uncaught exception: whatever
\* was raised, main() has returned after an error message and a traceback.
C6_ErrorsCaught ==
    /\ pc # "crashed"
    /\ (pc = "returned" /\ exc # NoExc) =>
            /\ Len(trace) >= 2
            /\ trace[Len(trace) - 1].ev = "st.error: loading"
            /\ trace[Len(trace)].ev = "st.code: traceback"
    /\ pc = "raised" => exc # NoExc

\* the document key is absent from the fetched JSON: KeyError, caught
C6_Witness ==
    /\ pc = "returned"
    /\ exc = [type |-> "KeyError", at |-> "ExtractBlocks"]
    /\ world.body.value.type = "dict"
    /\ DocumentKey \notin DOMAIN world.body.value.items
    /\ Happened("st.error: loading")

-----------------------------------------------------------------------------
(* C7 *)

FetchOrParseFails ==
    world.fetch # "ok" \/ world.body.kind \in {"garbage", "bad utf-8"}

-----------------------------------------------------------------------------
(* C8 *)

RECURSIVE LineTexts(_, _, _)
LineTexts(blocks, p, i) ==
    IF i > Len(blocks) THEN <<>>
    ELSE (IF blocks[i].BlockType = "LINE" /\ blocks[i].Page = p
          THEN <<blocks[i].Text>> ELSE <<>>) \o LineTexts(blocks, p, i + 1)

TextsShown(p) ==
    LET s == SelectSeq(text_out, LAMBDA e : e.page = p)
    IN [j \in DOMAIN s |-> s[j].text]

\* C8: for every page that has been displayed, the strings shown next to it
\* are exactly the Text of the LINE blocks of that page, in fragment order and
\* then block order; strings are shown page after page, never for a page
\* that was not reached.
C8_LineTextsInOrder ==
    LET fb == FragBlocks
        cs == Composites
    IN
        ResultOk =>
            /\ \A p \in 1 .. page_num - 1 : TextsShown(p) = LineTexts(fb, p, 1)
            /\ \A j \in DOMAIN text_out :
                    /\ text_out[j].page \in 1 .. PageCount
                    /\ text_out[j].page <= page_num
            /\ \A j, k \in DOMAIN text_out : j < k => text_out[j].page <= text_out[k].page

\* the first line of the input belongs to page 2, the second to page 1
C8_Witness ==
    LET fb == FragBlocks
        cs == Composites
    IN
        /\ pc = "returned" /\ exc = NoExc /\ ResultOk
        /\ Len(fb) = 2
        /\ fb[1].BlockType = "LINE" /\ fb[1].Page = 2
        /\ fb[2].BlockType = "LINE" /\ fb[2].Page = 1
        /\ text_out = <<[page |-> 1, text |-> "line 2"], [page |-> 2, text |-> "line 1"]>>

-----------------------------------------------------------------------------
(* C9 *)

HeaderTypes == {"LAYOUT_SECTION_HEADER", "LAYOUT_HEADER", "LAYOUT_TITLE"}

NumberOf(blocks, ty) == Cardinality({i \in DOMAIN blocks : blocks[i].BlockType = ty})

RECURSIVE HeadersOf(_, _, _)
HeadersOf(blocks, p, i) ==
    IF i > Len(blocks) THEN <<>>
    ELSE (IF blocks[i].BlockType \in HeaderTypes /\ blocks[i].Page = p
          THEN <<i>> ELSE <<>>) \o HeadersOf(blocks, p, i + 1)

\* C9: the statistics count the LINE, WORD, LAYOUT_FIGURE and LAYOUT_TABLE
\* blocks of all pages and nothing else, while every LAYOUT_SECTION_HEADER,
\* LAYOUT_HEADER and LAYOUT_TITLE block of a page is in the page's header
\* group and is painted with (128, 0, 128, 64).
C9_StatsAndHeaderGroup ==
    LET fb == FragBlocks
        cs == Composites
    IN
        ResultOk =>
            /\ stats # NoValue =>
                /\ stats.PageCount = PageCount
                /\ stats.LineCount = NumberOf(fb, "LINE")
                /\ stats.WordCount = NumberOf(fb, "WORD")
                /\ stats.FigureCount = NumberOf(fb, "LAYOUT_FIGURE")
                /\ stats.TableCount = NumberOf(fb, "LAYOUT_TABLE")
            /\ pc = "overlay" =>
                /\ groups.header = HeadersOf(fb, page_num, 1)
                /\ \A j \in DOMAIN todo :
                        fb[todo[j].block].BlockType \in HeaderTypes =>
                            todo[j].fill = <<128, 0, 128, 64>>
            /\ \A k \in DOMAIN shown : \A i \in DOMAIN fb :
                    (fb[i].BlockType \in HeaderTypes /\ fb[i].Page = shown[k].page) =>
                        /\ \E j \in DOMAIN cs :
                                cs[j].page = shown[k].page /\ cs[j].arg = i
                        /\ Len(fb) = 1 =>
                                \A xy \in Grid(PageSize) :
                                    Covers(fb[i], PageSize, xy) =>
                                        ShownPixels(k)[xy] =
                                            StdOver(BasePixel(shown[k].page, xy), <<128, 0, 128, 64>>)

\* a single LAYOUT_SECTION_HEADER block: all four counts are 0, yet the block
\* is painted purple
C9_Witness ==
    LET fb == FragBlocks
        cs == Composites
    IN
        /\ pc = "returned" /\ exc = NoExc /\ ResultOk
        /\ Len(fb) = 1 /\ Len(shown) = 1
        /\ fb[1].BlockType = "LAYOUT_SECTION_HEADER" /\ fb[1].Page = 1
        /\ stats = [PageCount |-> 1, LineCount |-> 0, WordCount |-> 0,
                    FigureCount |-> 0, TableCount |-> 0]
        /\ Covers(fb[1], PageSize, <<0, 0>>)
        /\ ShownPixels(1)[<<0, 0>>] = StdOver(BasePixel(1, <<0, 0>>), <<128, 0, 128, 64>>)

-----------------------------------------------------------------------------
(* C10 *)

Loads == SelectSeq(trace, LAMBDA e : e.ev = "load_page")
Images == SelectSeq(trace, LAMBDA e : e.ev = "st.image")

\* C10: pages are handled one at a time in the order 1..N; page p is
\* rasterized from index p-1 and displayed before page p+1 is started; a block
\* is composited onto page p's image exactly when it is an overlay block with
\* Page = p, at most once in the whole run and exactly once when the run
\* completes and its page is in 1..N; nothing drawn for one page shows on
\* another.
C10_PagesIsolatedInOrder ==
    LET fb == FragBlocks
        cs == Composites
        loads == Loads
        images == Images
    IN
        ResultOk =>
            /\ \A j \in DOMAIN loads :
                    loads[j].page = j /\ loads[j].arg = j - 1 /\ j <= PageCount
            /\ \A j \in DOMAIN images : images[j].page = j
            /\ Len(images) <= Len(loads) /\ Len(loads) <= Len(images) + 1
            /\ Len(shown) = Len(images)
            /\ \A k \in DOMAIN shown : shown[k].page = k
            /\ \A a, b \in DOMAIN trace :
                    (a < b /\ trace[a].page >= 1 /\ trace[b].page >= 1) =>
                        /\ trace[a].page <= trace[b].page
                        /\ trace[a].page = trace[b].page =>
                            /\ trace[b].ev # "load_page"
                            /\ trace[a].ev = "st.image" => trace[b].ev = "st.markdown"
            /\ \A j \in DOMAIN cs :
                    /\ fb[cs[j].arg].Page = cs[j].page
                    /\ cs[j].page \in 1 .. PageCount
                    /\ \A k \in DOMAIN cs : k # j => cs[k].arg # cs[j].arg
            /\ \A k \in DOMAIN shown : \A i \in DOMAIN fb :
                    (CategoryOf(fb[i].BlockType) # "none" /\ fb[i].Page = k) =>
                        \E j \in DOMAIN cs : cs[j].arg = i
            /\ \A k \in DOMAIN shown : \A xy \in Grid(PageSize) :
                    (\A i \in DOMAIN fb :
                        ~(/\ CategoryOf(fb[i].BlockType) # "none"
                          /\ fb[i].Page = k
                          /\ Covers(fb[i], PageSize, xy))) =>
                        ShownPixels(k)[xy] = BasePixel(k, xy)
            /\ (pc = "returned" /\ exc = NoExc /\ stats # NoValue) => Len(shown) = PageCount

\* two pages; the first block of the input is drawn on page 2, the second on
\* page 1, a block of page 3 would not be drawn at all
C10_Witness ==
    LET fb == FragBlocks
        cs == Composites
    IN
        /\ pc = "returned" /\ exc = NoExc /\ ResultOk
        /\ PageCount = 2 /\ Len(shown) = 2 /\ Len(fb) = 2
        /\ fb[1].BlockType = "LAYOUT_TABLE" /\ fb[1].Page = 2
        /\ fb[2].BlockType = "LAYOUT_FIGURE" /\ fb[2].Page = 1
        /\ cs = <<[ev |-> "alpha_composite", page |-> 1, arg |-> 2],
                          [ev |-> "alpha_composite", page |-> 2, arg |-> 1]>>
        /\ shown[1].image.px[<<0, 0>>] # shown[2].image.px[<<0, 0>>]

====
